---------------------------- MODULE Spec2Model ----------------------------
(***************************************************************************)
(* A model of the GoDB Go SDK (src/main.go): the GoDBClient, its direct    *)
(* operations and its fluent builders (UpdateTable, Insert,                *)
(* InsertMultiple, UpdateRecord, Query), with the transport replaced by a  *)
(* double that records the requests of the last operation and answers      *)
(* each call either with a response or with a failure.                     *)
(*                                                                         *)
(* Go strings that the code builds or inspects are sequences of            *)
(* one-character strings, so that concatenation, joining and escaping are  *)
(* computed and not assumed.  Texts the code only hands on (response       *)
(* messages, error texts) are atoms.                                       *)
(***************************************************************************)
EXTENDS Integers, Sequences, FiniteSets, TLC

VARIABLES
    connectionString,  \* GoDBClient.connectionString
    builders,          \* builder id -> the builder object created in that slot
    hist,              \* builder id -> history of the calls made on that builder
    last               \* the last operation: its name, builder, requests sent, result

vars == <<connectionString, builders, hist, last>>

---------------------------------------------------------------------------
(* Bounds of the model. *)

\* Equal/Greater/Less/LessEqual calls explored on one builder.
MaxFrags == 3
\* Records one InsertMultipleBuilder may hold.
MaxRecords == 2
\* Fields set plus fragments added on one builder, where two builders are interleaved.
MaxEffort == 3

---------------------------------------------------------------------------
(* Strings. *)

\* The literal " AND " of addCondition and of strings.Join in Query Exec.
AndSep == <<" ", "A", "N", "D", " ">>

DigitChars == <<"0", "1", "2", "3", "4", "5", "6", "7", "8", "9">>

RECURSIVE NatToStr(_)
NatToStr(n) ==
    IF n < 10 THEN <<DigitChars[n + 1]>>
    ELSE NatToStr(n \div 10) \o <<DigitChars[(n % 10) + 1]>>

\* strconv.Itoa, and %v of an int.
Itoa(n) == IF n < 0 THEN <<"-">> \o NatToStr(-n) ELSE NatToStr(n)

\* A slip: only the first quote is doubled (strings.Replace with n = 1).
ReplaceAllQuote_first(s) ==
    IF \E k \in 1..Len(s) : s[k] = "'"
    THEN LET k == CHOOSE j \in 1..Len(s) : s[j] = "'" /\ \A h \in 1..(j - 1) : s[h] # "'"
         IN  SubSeq(s, 1, k) \o <<"'">> \o SubSeq(s, k + 1, Len(s))
    ELSE s

\* strings.ReplaceAll(v, "'", "''")
RECURSIVE ReplaceAllQuote(_)
ReplaceAllQuote(s) ==
    IF s = <<>> THEN <<>>
    ELSE (IF Head(s) = "'" THEN <<"'", "'">> ELSE <<Head(s)>>)
         \o ReplaceAllQuote(Tail(s))

\* strings.Join(elems, sep)
RECURSIVE Join(_, _)
Join(elems, sep) ==
    IF elems = <<>> THEN <<>>
    ELSE IF Len(elems) = 1 THEN elems[1]
    ELSE elems[1] \o sep \o Join(Tail(elems), sep)

\* A value of type interface{}: a string, an int, or a float64 given in tenths
\* (FloatVal(25) is 2.5, FloatVal(1000) is 100.0).
TextVal(str) == [str |-> str, typ |-> "text", num |-> 0]
IntVal(num) == [str |-> <<>>, typ |-> "int", num |-> num]
FloatVal(tenths) == [str |-> <<>>, typ |-> "float", num |-> tenths]

\* %v of a float64 below 1e21 with at most one decimal: the shortest decimal text,
\* without a fraction when the value is whole.
FormatFloat(tenths) ==
    LET abs == IF tenths < 0 THEN -tenths ELSE tenths
        whole == NatToStr(abs \div 10)
        frac == IF abs % 10 = 0 THEN <<>> ELSE <<".", DigitChars[(abs % 10) + 1]>>
    IN  (IF tenths < 0 THEN <<"-">> ELSE <<>>) \o whole \o frac

\* fmt.Sprintf("%v", value)
SprintV(value) ==
    CASE value.typ = "text" -> value.str
      [] value.typ = "int" -> Itoa(value.num)
      [] OTHER -> FormatFloat(value.num)

\* A slip: every value is quoted, whatever its type.
formatCondition_quoteAll(field, operator, value) ==
    field \o <<" ">> \o operator \o <<" ", "'">>
          \o ReplaceAllQuote(SprintV(value)) \o <<"'">>

\* formatCondition: "field operator 'escaped'" for a string, "field operator value" otherwise.
formatCondition(field, operator, value) ==
    IF value.typ = "text"
    THEN field \o <<" ">> \o operator \o <<" ", "'">> \o ReplaceAllQuote(value.str) \o <<"'">>
    ELSE field \o <<" ">> \o operator \o <<" ">> \o SprintV(value)

---------------------------------------------------------------------------
(* Maps, errors, responses. *)

\* A Go map: nil, or a finite function from keys to values.
NilMap == [nil |-> TRUE, kv |-> <<>>]
MakeMap == [nil |-> FALSE, kv |-> <<>>]
MapOf(f) == [nil |-> FALSE, kv |-> f]
MapLen(m) == Cardinality(DOMAIN m.kv)

\* An error value: where it was made, the text a wrapper put before it, its text.
NilErr == [text |-> "", origin |-> "nil", wrap |-> ""]
LocalErr(text) == [text |-> text, origin |-> "local", wrap |-> ""]
TransportErr(text) == [text |-> text, origin |-> "transport", wrap |-> ""]
\* fmt.Errorf(wrap + "%w", err)
WrapErr(wrap, err) == [err EXCEPT !.wrap = wrap]

\* What the transport answers to one call: a response (message, and for CreateUser
\* a connection string) with a nil error, or no response and an error.
OkResponse == [err |-> NilErr, msg |-> "done", conn |-> <<"u">>]
Responses ==
    {OkResponse,
     [err |-> TransportErr("unavailable"), msg |-> "", conn |-> <<>>],
     [err |-> TransportErr("deadline exceeded"), msg |-> "", conn |-> <<>>]}

\* What an operation returns to its caller. builder is the id of the builder a
\* factory or setter returns, 0 for the operations that return values.
Returned(msg, conn, err) == [err |-> err, msg |-> msg, conn |-> conn, builder |-> 0]
ReturnedBuilder(i) == [err |-> NilErr, msg |-> "", conn |-> <<>>, builder |-> i]

\* The result of one operation: the requests it sent and what it returned.
Outcome(sent, ret) == [sent |-> sent, ret |-> ret]

---------------------------------------------------------------------------
(* The client's direct operations: one request, one call, the result handed on. *)

\* GoDBClient.CreateUser: the only operation that wraps the transport's error.
CreateUser(username, password, resp) ==
    LET req == [rpc |-> "CreateUser", Username |-> username, Password |-> password]
    IN  Outcome(<<req>>,
                IF resp.err # NilErr
                THEN Returned("", <<>>, WrapErr("failed to create user: ", resp.err))
                ELSE Returned(resp.msg, resp.conn, NilErr))

\* A slip: the transport's error is dropped.
CreateDatabase_swallow(connStr, resp) ==
    LET req == [rpc |-> "CreateDatabase", ConnectionString |-> connStr]
    IN  Outcome(<<req>>, Returned(resp.msg, <<>>, NilErr))

CreateDatabase(connStr, resp) ==
    LET req == [rpc |-> "CreateDatabase", ConnectionString |-> connStr]
    IN  Outcome(<<req>>,
                IF resp.err # NilErr THEN Returned("", <<>>, resp.err)
                ELSE Returned(resp.msg, <<>>, NilErr))

CreateTable(tableName, columns, connStr, resp) ==
    LET req == [rpc |-> "CreateTable", ConnectionString |-> connStr, TableName |-> tableName,
                Columns |-> columns]
    IN  Outcome(<<req>>,
                IF resp.err # NilErr THEN Returned("", <<>>, resp.err)
                ELSE Returned(resp.msg, <<>>, NilErr))

AddIndex(tableName, indexName, columns, connStr, resp) ==
    LET req == [rpc |-> "AddIndex", ConnectionString |-> connStr, TableName |-> tableName,
                Columns |-> columns, IndexName |-> indexName]
    IN  Outcome(<<req>>,
                IF resp.err # NilErr THEN Returned("", <<>>, resp.err)
                ELSE Returned(resp.msg, <<>>, NilErr))

DeleteIndex(indexName, connStr, resp) ==
    LET req == [rpc |-> "DeleteIndex", ConnectionString |-> connStr,
                IndexName |-> indexName]
    IN  Outcome(<<req>>,
                IF resp.err # NilErr THEN Returned("", <<>>, resp.err)
                ELSE Returned(resp.msg, <<>>, NilErr))

\* Returns the transport's response and error as they are.
ListIndexes(connStr, resp) ==
    LET req == [rpc |-> "ListIndexes", ConnectionString |-> connStr]
    IN  Outcome(<<req>>, Returned(resp.msg, <<>>, resp.err))

---------------------------------------------------------------------------
(* UpdateTableBuilder. *)

NoBuilder == [kind |-> "none"]

NewUpdateTableBuilder ==
    [tableName |-> <<>>, kind |-> "UpdateTable", columnName |-> <<>>,
     columnType |-> <<>>]

UpdateTableBuilder_Table(utb, table) == [utb EXCEPT !.tableName = table]

UpdateTableBuilder_AddColumn(utb, name, colType) ==
    [utb EXCEPT !.columnName = name, !.columnType = colType]

UpdateTableBuilder_Exec(utb, clientConn, resp) ==
    IF utb.tableName = <<>>
    THEN Outcome(<<>>, Returned("", <<>>, LocalErr("table name is required")))
    ELSE IF utb.columnName = <<>> \/ utb.columnType = <<>>
    THEN Outcome(<<>>, Returned("", <<>>, LocalErr("column name and type are required")))
    ELSE LET req == [rpc |-> "UpdateTable", ConnectionString |-> clientConn,
                     TableName |-> utb.tableName, ColumnName |-> utb.columnName,
                     ColumnType |-> utb.columnType]
         IN  Outcome(<<req>>,
                     IF resp.err # NilErr THEN Returned("", <<>>, resp.err)
                     ELSE Returned(resp.msg, <<>>, NilErr))

---------------------------------------------------------------------------
(* InsertBuilder. *)

NewInsertBuilder == [tableName |-> <<>>, kind |-> "Insert", record |-> MakeMap]

InsertBuilder_Table(ib, table) == [ib EXCEPT !.tableName = table]

\* A slip: the new map is merged into the old one.
InsertBuilder_Values_merge(ib, record) ==
    [ib EXCEPT !.record = MapOf(record.kv @@ @.kv)]

InsertBuilder_Values(ib, record) == [ib EXCEPT !.record = record]

\* A slip: the request is sent before the fields are validated.
InsertBuilder_Exec_sendFirst(ib, clientConn, resp) ==
    LET req == [rpc |-> "InsertRecord", ConnectionString |-> clientConn,
                TableName |-> ib.tableName, Record |-> ib.record]
    IN  IF ib.tableName = <<>>
        THEN Outcome(<<req>>, Returned("", <<>>, LocalErr("table name is required")))
        ELSE IF ib.record.nil \/ MapLen(ib.record) = 0
        THEN Outcome(<<req>>, Returned("", <<>>, LocalErr("no record provided")))
        ELSE Outcome(<<req>>,
                     IF resp.err # NilErr THEN Returned("", <<>>, resp.err)
                     ELSE Returned(resp.msg, <<>>, NilErr))

InsertBuilder_Exec(ib, clientConn, resp) ==
    IF ib.tableName = <<>>
    THEN Outcome(<<>>, Returned("", <<>>, LocalErr("table name is required")))
    ELSE IF ib.record.nil \/ MapLen(ib.record) = 0
    THEN Outcome(<<>>, Returned("", <<>>, LocalErr("no record provided")))
    ELSE LET req == [rpc |-> "InsertRecord", ConnectionString |-> clientConn,
                     TableName |-> ib.tableName, Record |-> ib.record]
         IN  Outcome(<<req>>,
                     IF resp.err # NilErr THEN Returned("", <<>>, resp.err)
                     ELSE Returned(resp.msg, <<>>, NilErr))

---------------------------------------------------------------------------
(* InsertMultipleBuilder. *)

NewInsertMultipleBuilder ==
    [tableName |-> <<>>, kind |-> "InsertMultiple", records |-> <<>>]

InsertMultipleBuilder_Table(imb, table) == [imb EXCEPT !.tableName = table]

\* A slip: the records of the call replace the ones supplied before.
InsertMultipleBuilder_Records_replace(imb, records) ==
    [imb EXCEPT !.records = [k \in 1..Len(records) |-> [Data |-> records[k]]]]

\* Appends one proto.Record per map, in the order of the slice.
InsertMultipleBuilder_Records(imb, records) ==
    [imb EXCEPT !.records = @ \o [k \in 1..Len(records) |-> [Data |-> records[k]]]]

InsertMultipleBuilder_Exec(imb, clientConn, resp) ==
    IF imb.tableName = <<>>
    THEN Outcome(<<>>, Returned("", <<>>, LocalErr("table name is required")))
    ELSE IF Len(imb.records) = 0
    THEN Outcome(<<>>, Returned("", <<>>, LocalErr("no records provided")))
    ELSE LET req == [rpc |-> "InsertMultipleRecords", ConnectionString |-> clientConn,
                     TableName |-> imb.tableName, Records |-> imb.records]
         IN  Outcome(<<req>>,
                     IF resp.err # NilErr THEN Returned("", <<>>, resp.err)
                     ELSE Returned(resp.msg, <<>>, NilErr))

---------------------------------------------------------------------------
(* UpdateRecordBuilder. *)

\* The factory leaves the builder's own connectionString field at its zero value.
NewUpdateRecordBuilder ==
    [connectionString |-> <<>>, tableName |-> <<>>, kind |-> "UpdateRecord",
     updates |-> MakeMap, condition |-> <<>>]

UpdateRecordBuilder_Table(urb, table) == [urb EXCEPT !.tableName = table]

\* A slip: the update map is replaced by the one field.
UpdateRecordBuilder_SetUpdate_replace(urb, field, value) ==
    [urb EXCEPT !.updates.kv = (field :> SprintV(value))]

\* urb.updates[field] = fmt.Sprintf("%v", value)
UpdateRecordBuilder_SetUpdate(urb, field, value) ==
    [urb EXCEPT !.updates.kv = (field :> SprintV(value)) @@ @]

\* for k, v := range upds { urb.updates[k] = fmt.Sprintf("%v", v) }
UpdateRecordBuilder_Updates(urb, upds) ==
    [urb EXCEPT !.updates.kv = [k \in DOMAIN upds.kv |-> SprintV(upds.kv[k])] @@ @]

\* A slip: the free-form string is joined like a fragment.
UpdateRecordBuilder_Condition_join(urb, cond) ==
    IF urb.condition # <<>>
    THEN [urb EXCEPT !.condition = @ \o AndSep \o cond]
    ELSE [urb EXCEPT !.condition = cond]

UpdateRecordBuilder_Condition(urb, cond) == [urb EXCEPT !.condition = cond]

\* A slip: the new fragment replaces the accumulated ones.
UpdateRecordBuilder_addCondition_overwrite(urb, cond) ==
    [urb EXCEPT !.condition = cond]

UpdateRecordBuilder_addCondition(urb, cond) ==
    IF urb.condition # <<>>
    THEN [urb EXCEPT !.condition = @ \o AndSep \o cond]
    ELSE [urb EXCEPT !.condition = cond]

UpdateRecordBuilder_Equal(urb, field, value) ==
    UpdateRecordBuilder_addCondition(urb, formatCondition(field, <<"=">>, value))

UpdateRecordBuilder_Greater(urb, field, value) ==
    UpdateRecordBuilder_addCondition(urb, formatCondition(field, <<">">>, value))

UpdateRecordBuilder_Less(urb, field, value) ==
    UpdateRecordBuilder_addCondition(urb, formatCondition(field, <<"<">>, value))

\* A slip: an empty condition is rejected.
UpdateRecordBuilder_Exec_needsCondition(urb, clientConn, resp) ==
    IF urb.tableName = <<>>
    THEN Outcome(<<>>, Returned("", <<>>, LocalErr("table name is required")))
    ELSE IF MapLen(urb.updates) = 0
    THEN Outcome(<<>>, Returned("", <<>>, LocalErr("no updates provided")))
    ELSE IF urb.condition = <<>>
    THEN Outcome(<<>>, Returned("", <<>>, LocalErr("condition is required")))
    ELSE LET req == [rpc |-> "UpdateRecord", ConnectionString |-> clientConn,
                     TableName |-> urb.tableName, Updates |-> urb.updates,
                     Condition |-> urb.condition]
         IN  Outcome(<<req>>,
                     IF resp.err # NilErr THEN Returned("", <<>>, resp.err)
                     ELSE Returned(resp.msg, <<>>, NilErr))

\* A slip: the call is made a second time when it fails.
UpdateRecordBuilder_Exec_retry(urb, clientConn, resp) ==
    IF urb.tableName = <<>>
    THEN Outcome(<<>>, Returned("", <<>>, LocalErr("table name is required")))
    ELSE IF MapLen(urb.updates) = 0
    THEN Outcome(<<>>, Returned("", <<>>, LocalErr("no updates provided")))
    ELSE LET req == [rpc |-> "UpdateRecord", ConnectionString |-> clientConn,
                     TableName |-> urb.tableName, Updates |-> urb.updates,
                     Condition |-> urb.condition]
         IN  IF resp.err # NilErr
             THEN Outcome(<<req, req>>, Returned("", <<>>, resp.err))
             ELSE Outcome(<<req>>, Returned(resp.msg, <<>>, NilErr))

\* The builder after Exec: Exec assigns none of its fields.
UpdateRecordBuilder_afterExec(urb) == urb

\* The request carries the connection string the client holds when Exec runs.
UpdateRecordBuilder_Exec(urb, clientConn, resp) ==
    IF urb.tableName = <<>>
    THEN Outcome(<<>>, Returned("", <<>>, LocalErr("table name is required")))
    ELSE IF MapLen(urb.updates) = 0
    THEN Outcome(<<>>, Returned("", <<>>, LocalErr("no updates provided")))
    ELSE LET req == [rpc |-> "UpdateRecord", ConnectionString |-> clientConn,
                     TableName |-> urb.tableName, Updates |-> urb.updates,
                     Condition |-> urb.condition]
         IN  Outcome(<<req>>,
                     IF resp.err # NilErr THEN Returned("", <<>>, resp.err)
                     ELSE Returned(resp.msg, <<>>, NilErr))

---------------------------------------------------------------------------
(* QueryBuilder. *)

NewQueryBuilder ==
    [tableName |-> <<>>, columns |-> <<>>, kind |-> "Query", condition |-> <<>>,
     orderBy |-> <<>>, limit |-> 0, offset |-> 0, cursor |-> <<>>]

QueryBuilder_Table(qb, table) == [qb EXCEPT !.tableName = table]
QueryBuilder_Columns(qb, cols) == [qb EXCEPT !.columns = cols]
QueryBuilder_Condition(qb, cond) == [qb EXCEPT !.condition = cond]

\* A slip: the new fragment is put before the accumulated ones.
QueryBuilder_addCondition_prepend(qb, cond) ==
    IF qb.condition # <<>>
    THEN [qb EXCEPT !.condition = cond \o AndSep \o @]
    ELSE [qb EXCEPT !.condition = cond]

QueryBuilder_addCondition(qb, cond) ==
    IF qb.condition # <<>>
    THEN [qb EXCEPT !.condition = @ \o AndSep \o cond]
    ELSE [qb EXCEPT !.condition = cond]

QueryBuilder_Equal(qb, field, value) ==
    QueryBuilder_addCondition(qb, formatCondition(field, <<"=">>, value))

QueryBuilder_Greater(qb, field, value) ==
    QueryBuilder_addCondition(qb, formatCondition(field, <<">">>, value))

QueryBuilder_Less(qb, field, value) ==
    QueryBuilder_addCondition(qb, formatCondition(field, <<"<">>, value))

QueryBuilder_LessEqual(qb, field, value) ==
    QueryBuilder_addCondition(qb, formatCondition(field, <<"<", "=">>, value))

QueryBuilder_Cursor(qb, cursor) == [qb EXCEPT !.cursor = cursor]
QueryBuilder_OrderBy(qb, order) == [qb EXCEPT !.orderBy = order]
QueryBuilder_Limit(qb, limit) == [qb EXCEPT !.limit = limit]
QueryBuilder_Offset(qb, offset) == [qb EXCEPT !.offset = offset]

IdGreater == <<"i", "d", " ", ">", " ">>
OrderByKw == <<" ", "O", "R", "D", "E", "R", " ", "B", "Y", " ">>
LimitKw == <<" ", "L", "I", "M", "I", "T", " ">>
OffsetKw == <<" ", "O", "F", "F", "S", "E", "T", " ">>

\* A slip: OFFSET is appended before LIMIT.
QueryBuilder_finalCondition_swapped(qb) ==
    LET c1 == IF qb.condition # <<>> THEN <<qb.condition>> ELSE <<>>
        conditions == IF qb.cursor # <<>> THEN Append(c1, IdGreater \o qb.cursor) ELSE c1
        f0 == IF Len(conditions) > 0 THEN Join(conditions, AndSep) ELSE <<>>
        f1 == IF qb.orderBy # <<>> THEN f0 \o OrderByKw \o qb.orderBy ELSE f0
        f2 == IF qb.offset > 0 THEN f1 \o OffsetKw \o Itoa(qb.offset) ELSE f1
        f3 == IF qb.limit > 0 THEN f2 \o LimitKw \o Itoa(qb.limit) ELSE f2
    IN  f3

\* A slip: a limit of 0 is rendered too.
QueryBuilder_finalCondition_zeroLimit(qb) ==
    LET c1 == IF qb.condition # <<>> THEN <<qb.condition>> ELSE <<>>
        conditions == IF qb.cursor # <<>> THEN Append(c1, IdGreater \o qb.cursor) ELSE c1
        f0 == IF Len(conditions) > 0 THEN Join(conditions, AndSep) ELSE <<>>
        f1 == IF qb.orderBy # <<>> THEN f0 \o OrderByKw \o qb.orderBy ELSE f0
        f2 == IF qb.limit >= 0 THEN f1 \o LimitKw \o Itoa(qb.limit) ELSE f1
        f3 == IF qb.offset > 0 THEN f2 \o OffsetKw \o Itoa(qb.offset) ELSE f2
    IN  f3

\* A slip: the cursor is quoted and escaped like a text value.
QueryBuilder_finalCondition_quotedCursor(qb) ==
    LET c1 == IF qb.condition # <<>> THEN <<qb.condition>> ELSE <<>>
        conditions ==
            IF qb.cursor # <<>>
            THEN Append(c1, formatCondition(<<"i", "d">>, <<">">>, TextVal(qb.cursor)))
            ELSE c1
        f0 == IF Len(conditions) > 0 THEN Join(conditions, AndSep) ELSE <<>>
        f1 == IF qb.orderBy # <<>> THEN f0 \o OrderByKw \o qb.orderBy ELSE f0
        f2 == IF qb.limit > 0 THEN f1 \o LimitKw \o Itoa(qb.limit) ELSE f1
        f3 == IF qb.offset > 0 THEN f2 \o OffsetKw \o Itoa(qb.offset) ELSE f2
    IN  f3

\* A slip: OFFSET is rendered only together with LIMIT.
QueryBuilder_finalCondition_offsetNeedsLimit(qb) ==
    LET c1 == IF qb.condition # <<>> THEN <<qb.condition>> ELSE <<>>
        conditions == IF qb.cursor # <<>> THEN Append(c1, IdGreater \o qb.cursor) ELSE c1
        f0 == IF Len(conditions) > 0 THEN Join(conditions, AndSep) ELSE <<>>
        f1 == IF qb.orderBy # <<>> THEN f0 \o OrderByKw \o qb.orderBy ELSE f0
        f2 == IF qb.limit > 0 THEN f1 \o LimitKw \o Itoa(qb.limit) ELSE f1
        f3 == IF qb.offset > 0 /\ qb.limit > 0 THEN f2 \o OffsetKw \o Itoa(qb.offset) ELSE f2
    IN  f3

\* The finalCondition that Exec composes in a local variable.
QueryBuilder_finalCondition(qb) ==
    LET c1 == IF qb.condition # <<>> THEN <<qb.condition>> ELSE <<>>
        conditions == IF qb.cursor # <<>> THEN Append(c1, IdGreater \o qb.cursor) ELSE c1
        f0 == IF Len(conditions) > 0 THEN Join(conditions, AndSep) ELSE <<>>
        f1 == IF qb.orderBy # <<>> THEN f0 \o OrderByKw \o qb.orderBy ELSE f0
        f2 == IF qb.limit > 0 THEN f1 \o LimitKw \o Itoa(qb.limit) ELSE f1
        f3 == IF qb.offset > 0 THEN f2 \o OffsetKw \o Itoa(qb.offset) ELSE f2
    IN  f3

\* A slip: the composed condition is stored back into the builder.
QueryBuilder_afterExec_stored(qb) ==
    [qb EXCEPT !.condition = QueryBuilder_finalCondition(qb)]

\* The builder after Exec: conditions and finalCondition are local variables, and
\* Exec assigns no field of qb.
QueryBuilder_afterExec(qb) == qb

\* A slip: an empty table name is rejected before the call.
QueryBuilder_Exec_validated(qb, clientConn, resp) ==
    LET req == [rpc |-> "QueryData", ConnectionString |-> clientConn,
                TableName |-> qb.tableName, Columns |-> qb.columns,
                Condition |-> QueryBuilder_finalCondition(qb)]
    IN  IF qb.tableName = <<>>
        THEN Outcome(<<>>, Returned("", <<>>, LocalErr("table name is required")))
        ELSE Outcome(<<req>>, Returned(resp.msg, <<>>, resp.err))

\* No validation; returns the transport's response and error as they are.
QueryBuilder_Exec(qb, clientConn, resp) ==
    LET req == [rpc |-> "QueryData", ConnectionString |-> clientConn,
                TableName |-> qb.tableName, Columns |-> qb.columns,
                Condition |-> QueryBuilder_finalCondition(qb)]
    IN  Outcome(<<req>>, Returned(resp.msg, <<>>, resp.err))

---------------------------------------------------------------------------
(* The state machine: one client, builder slots, and the caller's calls. *)

\* What is remembered of the calls made on a builder since its factory call.
NewHist(conn) ==
    [connAtCreate |-> conn,       \* the client's connection string at the factory call
     frags |-> <<>>,              \* every fragment added by Equal/Greater/Less/LessEqual
     sinceCond |-> <<>>,          \* the fragments added after the last Condition call
     condCalled |-> FALSE,        \* Condition was called
     base |-> <<>>,               \* the argument of the last Condition call
     lastSet |-> "none",          \* the last setter called
     valuesCalled |-> FALSE,      \* Values was called
     lastValues |-> NilMap,       \* the argument of the last Values call
     earlierValues |-> {},        \* the arguments of the Values calls before the last
     calls |-> <<>>,              \* the arguments of each call that added a fragment
     supplied |-> <<>>,           \* every map passed to Records, in supply order
     named |-> {},                \* the fields named by SetUpdate and Updates calls
     latest |-> <<>>]             \* field -> the value of the latest call naming it

\* The transport double answers every request of an operation with resp.
Replies(outcome, resp) == [k \in 1..Len(outcome.sent) |-> resp]

Op(name, i, outcome, replies) ==
    [sent |-> outcome.sent, ret |-> outcome.ret, replies |-> replies, op |-> name,
     slot |-> i]

BuilderIds == DOMAIN builders

Init ==
    /\ connectionString = <<>>
    /\ builders = [i \in {1} |-> NoBuilder]
    /\ hist = [i \in {1} |-> NewHist(<<>>)]
    /\ last = Op("NewGoDBClient", 0, Outcome(<<>>, Returned("", <<>>, NilErr)), <<>>)

\* A call of the client that touches no builder.
ClientCall(name, outcome, resp) ==
    /\ last' = Op(name, 0, outcome, Replies(outcome, resp))
    /\ UNCHANGED <<connectionString, builders, hist>>

\* A factory call: a new builder in slot i.
Factory(name, i, b) ==
    /\ builders' = [builders EXCEPT ![i] = b]
    /\ hist' = [hist EXCEPT ![i] = NewHist(connectionString)]
    /\ last' = Op(name, i, Outcome(<<>>, ReturnedBuilder(i)), <<>>)
    /\ UNCHANGED connectionString

\* A slip: the builders of one kind share their fields.
Setter_shared(name, i, b, h) ==
    /\ builders' = [j \in DOMAIN builders |->
                        IF builders[j].kind = b.kind THEN b ELSE builders[j]]
    /\ hist' = [hist EXCEPT ![i] = h]
    /\ last' = Op(name, i, Outcome(<<>>, ReturnedBuilder(i)), <<>>)
    /\ UNCHANGED connectionString

\* A setter call on the builder in slot i: the builder after it and its history.
Setter(name, i, b, h) ==
    /\ builders' = [builders EXCEPT ![i] = b]
    /\ hist' = [hist EXCEPT ![i] = h]
    /\ last' = Op(name, i, Outcome(<<>>, ReturnedBuilder(i)), <<>>)
    /\ UNCHANGED connectionString

\* An Exec call on the builder in slot i, which is b after it.
Terminal(name, i, b, outcome, resp) ==
    /\ builders' = [builders EXCEPT ![i] = b]
    /\ last' = Op(name, i, outcome, Replies(outcome, resp))
    /\ UNCHANGED <<connectionString, hist>>

Is(i, kind) == builders[i].kind = kind

SetBy(h, name) == [h EXCEPT !.lastSet = name]

\* The history after Equal, Greater, Less or LessEqual added a fragment.
Added(h, name, field, operator, value) ==
    LET frag == formatCondition(field, operator, value)
    IN  [h EXCEPT !.frags = Append(@, frag), !.sinceCond = Append(@, frag),
                  !.lastSet = name,
                  !.calls = Append(@, <<field, operator, value>>)]

\* The history after SetUpdate or Updates named the fields of upds.
Updated(h, name, upds) ==
    [h EXCEPT !.lastSet = name,
              !.named = @ \cup DOMAIN upds,
              !.latest = [f \in DOMAIN upds \cup DOMAIN @ |->
                             IF f \in DOMAIN upds THEN upds[f] ELSE @[f]]]

\* The history after Condition(cond).
Conditioned(h, name, cond) ==
    [h EXCEPT !.sinceCond = <<>>, !.condCalled = TRUE, !.base = cond,
              !.lastSet = name]

MayAdd(i) == Len(hist[i].frags) < MaxFrags

GoDBClient_SetConnectionString(connStr) ==
    /\ connectionString' = connStr
    /\ last' = Op("SetConnectionString", 0, Outcome(<<>>, Returned("", <<>>, NilErr)), <<>>)
    /\ UNCHANGED <<builders, hist>>

GoDBClient_CreateUser(username, password, resp) ==
    ClientCall("CreateUser", CreateUser(username, password, resp), resp)

GoDBClient_CreateDatabase(connStr, resp) ==
    ClientCall("CreateDatabase", CreateDatabase(connStr, resp), resp)

GoDBClient_CreateTable(tableName, columns, connStr, resp) ==
    ClientCall("CreateTable", CreateTable(tableName, columns, connStr, resp), resp)

GoDBClient_AddIndex(tableName, indexName, columns, connStr, resp) ==
    ClientCall("AddIndex", AddIndex(tableName, indexName, columns, connStr, resp), resp)

GoDBClient_DeleteIndex(indexName, connStr, resp) ==
    ClientCall("DeleteIndex", DeleteIndex(indexName, connStr, resp), resp)

GoDBClient_ListIndexes(connStr, resp) ==
    ClientCall("ListIndexes", ListIndexes(connStr, resp), resp)

GoDBClient_UpdateTable(i) == Factory("UpdateTable", i, NewUpdateTableBuilder)
GoDBClient_Insert(i) == Factory("Insert", i, NewInsertBuilder)
GoDBClient_InsertMultiple(i) == Factory("InsertMultiple", i, NewInsertMultipleBuilder)
GoDBClient_UpdateRecord(i) == Factory("UpdateRecord", i, NewUpdateRecordBuilder)
GoDBClient_Query(i) == Factory("Query", i, NewQueryBuilder)

UTB_Table(i, table) ==
    /\ Is(i, "UpdateTable")
    /\ Setter("UpdateTableBuilder.Table", i,
              UpdateTableBuilder_Table(builders[i], table), SetBy(hist[i], "Table"))

UTB_AddColumn(i, name, colType) ==
    /\ Is(i, "UpdateTable")
    /\ Setter("UpdateTableBuilder.AddColumn", i,
              UpdateTableBuilder_AddColumn(builders[i], name, colType),
              SetBy(hist[i], "AddColumn"))

UTB_Exec(i, resp) ==
    /\ Is(i, "UpdateTable")
    /\ Terminal("UpdateTableBuilder.Exec", i, builders[i],
                UpdateTableBuilder_Exec(builders[i], connectionString, resp), resp)

IB_Table(i, table) ==
    /\ Is(i, "Insert")
    /\ Setter("InsertBuilder.Table", i,
              InsertBuilder_Table(builders[i], table), SetBy(hist[i], "Table"))

IB_Values(i, record) ==
    /\ Is(i, "Insert")
    /\ Setter("InsertBuilder.Values", i,
              InsertBuilder_Values(builders[i], record),
              [hist[i] EXCEPT !.valuesCalled = TRUE, !.lastValues = record,
                              !.earlierValues =
                                  IF hist[i].valuesCalled
                                  THEN @ \cup {hist[i].lastValues} ELSE @,
                              !.lastSet = "Values"])

IB_Exec(i, resp) ==
    /\ Is(i, "Insert")
    /\ Terminal("InsertBuilder.Exec", i, builders[i],
                InsertBuilder_Exec(builders[i], connectionString, resp), resp)

IMB_Table(i, table) ==
    /\ Is(i, "InsertMultiple")
    /\ Setter("InsertMultipleBuilder.Table", i,
              InsertMultipleBuilder_Table(builders[i], table), SetBy(hist[i], "Table"))

IMB_Records(i, records) ==
    /\ Is(i, "InsertMultiple")
    /\ Len(builders[i].records) + Len(records) <= MaxRecords
    /\ Setter("InsertMultipleBuilder.Records", i,
              InsertMultipleBuilder_Records(builders[i], records),
              [hist[i] EXCEPT !.lastSet = "Records", !.supplied = @ \o records])

IMB_Exec(i, resp) ==
    /\ Is(i, "InsertMultiple")
    /\ Terminal("InsertMultipleBuilder.Exec", i, builders[i],
                InsertMultipleBuilder_Exec(builders[i], connectionString, resp), resp)

URB_Table(i, table) ==
    /\ Is(i, "UpdateRecord")
    /\ Setter("UpdateRecordBuilder.Table", i,
              UpdateRecordBuilder_Table(builders[i], table), SetBy(hist[i], "Table"))

URB_SetUpdate(i, field, value) ==
    /\ Is(i, "UpdateRecord")
    /\ Setter("UpdateRecordBuilder.SetUpdate", i,
              UpdateRecordBuilder_SetUpdate(builders[i], field, value),
              Updated(hist[i], "SetUpdate", field :> value))

URB_Updates(i, upds) ==
    /\ Is(i, "UpdateRecord")
    /\ Setter("UpdateRecordBuilder.Updates", i,
              UpdateRecordBuilder_Updates(builders[i], upds),
              Updated(hist[i], "Updates", upds.kv))

URB_Condition(i, cond) ==
    /\ Is(i, "UpdateRecord")
    /\ Setter("UpdateRecordBuilder.Condition", i,
              UpdateRecordBuilder_Condition(builders[i], cond),
              Conditioned(hist[i], "Condition", cond))

URB_Equal(i, field, value) ==
    /\ Is(i, "UpdateRecord") /\ MayAdd(i)
    /\ Setter("UpdateRecordBuilder.Equal", i,
              UpdateRecordBuilder_Equal(builders[i], field, value),
              Added(hist[i], "Equal", field, <<"=">>, value))

URB_Greater(i, field, value) ==
    /\ Is(i, "UpdateRecord") /\ MayAdd(i)
    /\ Setter("UpdateRecordBuilder.Greater", i,
              UpdateRecordBuilder_Greater(builders[i], field, value),
              Added(hist[i], "Greater", field, <<">">>, value))

URB_Less(i, field, value) ==
    /\ Is(i, "UpdateRecord") /\ MayAdd(i)
    /\ Setter("UpdateRecordBuilder.Less", i,
              UpdateRecordBuilder_Less(builders[i], field, value),
              Added(hist[i], "Less", field, <<"<">>, value))

URB_Exec(i, resp) ==
    /\ Is(i, "UpdateRecord")
    /\ Terminal("UpdateRecordBuilder.Exec", i, UpdateRecordBuilder_afterExec(builders[i]),
                UpdateRecordBuilder_Exec(builders[i], connectionString, resp), resp)

QB_Table(i, table) ==
    /\ Is(i, "Query")
    /\ Setter("QueryBuilder.Table", i,
              QueryBuilder_Table(builders[i], table), SetBy(hist[i], "Table"))

QB_Columns(i, cols) ==
    /\ Is(i, "Query")
    /\ Setter("QueryBuilder.Columns", i,
              QueryBuilder_Columns(builders[i], cols), SetBy(hist[i], "Columns"))

QB_Condition(i, cond) ==
    /\ Is(i, "Query")
    /\ Setter("QueryBuilder.Condition", i,
              QueryBuilder_Condition(builders[i], cond),
              Conditioned(hist[i], "Condition", cond))

QB_Equal(i, field, value) ==
    /\ Is(i, "Query") /\ MayAdd(i)
    /\ Setter("QueryBuilder.Equal", i,
              QueryBuilder_Equal(builders[i], field, value),
              Added(hist[i], "Equal", field, <<"=">>, value))

QB_Greater(i, field, value) ==
    /\ Is(i, "Query") /\ MayAdd(i)
    /\ Setter("QueryBuilder.Greater", i,
              QueryBuilder_Greater(builders[i], field, value),
              Added(hist[i], "Greater", field, <<">">>, value))

QB_Less(i, field, value) ==
    /\ Is(i, "Query") /\ MayAdd(i)
    /\ Setter("QueryBuilder.Less", i,
              QueryBuilder_Less(builders[i], field, value),
              Added(hist[i], "Less", field, <<"<">>, value))

QB_LessEqual(i, field, value) ==
    /\ Is(i, "Query") /\ MayAdd(i)
    /\ Setter("QueryBuilder.LessEqual", i,
              QueryBuilder_LessEqual(builders[i], field, value),
              Added(hist[i], "LessEqual", field, <<"<", "=">>, value))

QB_Cursor(i, cursor) ==
    /\ Is(i, "Query")
    /\ Setter("QueryBuilder.Cursor", i,
              QueryBuilder_Cursor(builders[i], cursor), SetBy(hist[i], "Cursor"))

QB_OrderBy(i, order) ==
    /\ Is(i, "Query")
    /\ Setter("QueryBuilder.OrderBy", i,
              QueryBuilder_OrderBy(builders[i], order), SetBy(hist[i], "OrderBy"))

QB_Limit(i, limit) ==
    /\ Is(i, "Query")
    /\ Setter("QueryBuilder.Limit", i,
              QueryBuilder_Limit(builders[i], limit), SetBy(hist[i], "Limit"))

QB_Offset(i, offset) ==
    /\ Is(i, "Query")
    /\ Setter("QueryBuilder.Offset", i,
              QueryBuilder_Offset(builders[i], offset), SetBy(hist[i], "Offset"))

QB_Exec(i, resp) ==
    /\ Is(i, "Query")
    /\ Terminal("QueryBuilder.Exec", i, QueryBuilder_afterExec(builders[i]),
                QueryBuilder_Exec(builders[i], connectionString, resp), resp)

---------------------------------------------------------------------------
(* The inputs the callers draw from. *)

Tables == {<<>>, <<"t">>}
ConnStrs == {<<"A">>, <<"B">>}
ColumnNames == {<<>>, <<"c">>}
ColumnTypes == {<<>>, <<"T">>}
RecordMaps ==
    {NilMap, MakeMap, MapOf(<<"a">> :> <<"1">>),
     MapOf((<<"a">> :> <<"2">>) @@ (<<"b">> :> <<"3">>))}
RecordLists ==
    {<<>>, <<MapOf(<<"a">> :> <<"1">>)>>, <<MapOf(<<"b">> :> <<"3">>)>>,
     <<MapOf(<<"a">> :> <<"2">>), MapOf(<<"b">> :> <<"3">>)>>}
UpdateMaps ==
    {NilMap, MapOf((<<"a">> :> IntVal(5)) @@ (<<"b">> :> TextVal(<<"x">>)))}
Values == {TextVal(<<"O", "'", "B">>), IntVal(5)}
RawConds == {<<>>, <<"c">>}
Cursors == {<<>>, <<"7", "'">>}
Orders == {<<>>, <<"n">>}
Limits == {-1, 0, 2, 10}
FieldName == <<"n", "a", "m", "e">>
FieldId == <<"i", "d">>
FieldPrice == <<"p", "r", "i", "c", "e">>
OBrien == <<"O", "'", "B", "r", "i", "e", "n">>
Gaming == <<"G", "a", "m", "i", "n", "g">>
TextValues ==
    {TextVal(<<>>), TextVal(<<"'">>), TextVal(<<"'", "'">>), TextVal(OBrien),
     TextVal(<<"a", "'", "'", "b", "'">>)}
Numbers == {IntVal(100), IntVal(-3), FloatVal(25), FloatVal(1000), FloatVal(-5)}

---------------------------------------------------------------------------
(* Spec: every operation of the client and every builder, with the setters  *)
(* that decide validation and fill the requests.                            *)

ClientStep ==
    \E resp \in Responses :
        \/ \E cs \in ConnStrs : GoDBClient_SetConnectionString(cs)
        \/ GoDBClient_CreateUser(<<"u">>, <<"p">>, resp)
        \/ GoDBClient_CreateDatabase(<<"A">>, resp)
        \/ GoDBClient_CreateTable(<<"t">>, MapOf(<<"c">> :> <<"T">>), <<"A">>, resp)
        \/ GoDBClient_AddIndex(<<"t">>, <<"x">>, <<<<"c">>>>, <<"A">>, resp)
        \/ GoDBClient_DeleteIndex(<<"x">>, <<"A">>, resp)
        \/ GoDBClient_ListIndexes(<<"A">>, resp)

FactoryStep(i) ==
    \/ GoDBClient_UpdateTable(i)
    \/ GoDBClient_Insert(i)
    \/ GoDBClient_InsertMultiple(i)
    \/ GoDBClient_UpdateRecord(i)
    \/ GoDBClient_Query(i)

UpdateTableStep(i) ==
    \/ \E t \in Tables : UTB_Table(i, t)
    \/ \E n \in ColumnNames, ty \in ColumnTypes : UTB_AddColumn(i, n, ty)
    \/ \E resp \in Responses : UTB_Exec(i, resp)

InsertStep(i) ==
    \/ \E t \in Tables : IB_Table(i, t)
    \/ \E m \in RecordMaps : IB_Values(i, m)
    \/ \E resp \in Responses : IB_Exec(i, resp)

InsertMultipleStep(i) ==
    \/ \E t \in Tables : IMB_Table(i, t)
    \/ \E l \in RecordLists : IMB_Records(i, l)
    \/ \E resp \in Responses : IMB_Exec(i, resp)

UpdateRecordStep(i) ==
    \/ \E t \in Tables : URB_Table(i, t)
    \/ \E v \in {IntVal(5), TextVal(<<"x">>)} : URB_SetUpdate(i, <<"a">>, v)
    \/ \E m \in UpdateMaps : URB_Updates(i, m)
    \/ URB_Condition(i, <<"c">>)
    \/ URB_Equal(i, <<"a">>, IntVal(5))
    \/ \E resp \in Responses : URB_Exec(i, resp)

QueryStep(i) ==
    \/ \E t \in Tables : QB_Table(i, t)
    \/ \E c \in ColumnNames : QB_Columns(i, c)
    \/ QB_Equal(i, <<"a">>, TextVal(<<"x">>))
    \/ QB_Limit(i, 2)
    \/ \E resp \in Responses : QB_Exec(i, resp)

Next ==
    \/ ClientStep
    \/ \E i \in BuilderIds :
        \/ FactoryStep(i)
        \/ UpdateTableStep(i)
        \/ InsertStep(i)
        \/ InsertMultipleStep(i)
        \/ UpdateRecordStep(i)
        \/ QueryStep(i)

Spec == Init /\ [][Next]_vars

---------------------------------------------------------------------------
(* SpecCond: the accumulated condition of the two builders that have one.   *)

CondStep(i) ==
    \/ GoDBClient_UpdateRecord(i)
    \/ GoDBClient_Query(i)
    \/ URB_Table(i, <<"t">>)
    \/ URB_SetUpdate(i, <<"a">>, IntVal(5))
    \/ \E c \in RawConds : URB_Condition(i, c)
    \/ \E v \in Values : URB_Equal(i, <<"a">>, v)
    \/ \E v \in Values : URB_Greater(i, <<"a">>, v)
    \/ \E v \in Values : URB_Less(i, <<"a">>, v)
    \/ URB_Exec(i, OkResponse)
    \/ \E c \in RawConds : QB_Condition(i, c)
    \/ \E v \in Values : QB_Equal(i, <<"a">>, v)
    \/ \E v \in Values : QB_Greater(i, <<"a">>, v)
    \/ \E v \in Values : QB_Less(i, <<"a">>, v)
    \/ \E v \in Values : QB_LessEqual(i, <<"a">>, v)
    \/ QB_Cursor(i, <<"7">>)
    \/ QB_Exec(i, OkResponse)

NextCond == \E i \in BuilderIds : CondStep(i)

SpecCond == Init /\ [][NextCond]_vars

---------------------------------------------------------------------------
(* SpecQuery: the clauses of a query, set in every order.                   *)

ClauseStep(i) ==
    \/ GoDBClient_Query(i)
    \/ \E c \in RawConds : QB_Condition(i, c)
    \/ QB_Equal(i, FieldName, TextVal(Gaming))
    \/ QB_Greater(i, FieldId, IntVal(-12))
    \/ \E c \in Cursors : QB_Cursor(i, c)
    \/ \E o \in Orders : QB_OrderBy(i, o)
    \/ \E n \in Limits : QB_Limit(i, n)
    \/ \E n \in Limits : QB_Offset(i, n)
    \/ QB_Exec(i, OkResponse)

NextQuery == \E i \in BuilderIds : ClauseStep(i)

SpecQuery == Init /\ [][NextQuery]_vars

---------------------------------------------------------------------------
(* SpecFormat: formatCondition on texts with quotes and on numbers, through *)
(* the builders' predicate helpers.                                         *)

FormatStep(i) ==
    \/ GoDBClient_UpdateRecord(i)
    \/ GoDBClient_Query(i)
    \/ URB_Table(i, <<"t">>)
    \/ \E v \in TextValues : URB_Equal(i, FieldName, v)
    \/ URB_Equal(i, FieldId, IntVal(5))
    \/ \E v \in Numbers : URB_Greater(i, FieldPrice, v)
    \/ \E v \in Numbers : URB_Less(i, FieldId, v)
    \/ \E v \in {TextVal(OBrien), FloatVal(25)} : QB_LessEqual(i, FieldName, v)

NextFormat == \E i \in BuilderIds : FormatStep(i)

SpecFormat == Init /\ [][NextFormat]_vars

---------------------------------------------------------------------------
(* SpecExec: Exec called again and again on a Query or UpdateRecord builder, *)
(* the transport answering or failing, with setter calls in between.         *)

ExecStep(i) ==
    \/ GoDBClient_Query(i)
    \/ GoDBClient_UpdateRecord(i)
    \/ QB_Condition(i, <<"c">>)
    \/ QB_Equal(i, <<"a">>, IntVal(5))
    \/ QB_Cursor(i, <<"7">>)
    \/ QB_OrderBy(i, <<"n">>)
    \/ \E n \in {0, 2} : QB_Limit(i, n)
    \/ \E n \in {0, 2} : QB_Offset(i, n)
    \/ \E resp \in Responses : QB_Exec(i, resp)
    \/ URB_Table(i, <<"t">>)
    \/ URB_SetUpdate(i, <<"a">>, IntVal(5))
    \/ URB_Condition(i, <<"c">>)
    \/ URB_Equal(i, <<"a">>, IntVal(5))
    \/ \E resp \in Responses : URB_Exec(i, resp)

NextExec == \E i \in BuilderIds : ExecStep(i)

SpecExec == Init /\ [][NextExec]_vars

---------------------------------------------------------------------------
(* SpecFrame: two builders of one client, their setter calls interleaved.    *)
(* Every setter of the SDK is called on the first; the second is a Query or  *)
(* UpdateRecord builder on which a few setters are called.                   *)

InitFrame ==
    /\ connectionString = <<>>
    /\ builders = [i \in {1, 2} |-> NoBuilder]
    /\ hist = [i \in {1, 2} |-> NewHist(<<>>)]
    /\ last = Op("NewGoDBClient", 0, Outcome(<<>>, Returned("", <<>>, NilErr)), <<>>)

\* The builder a factory returns.
Fresh(kind) ==
    CASE kind = "UpdateTable" -> NewUpdateTableBuilder
      [] kind = "Insert" -> NewInsertBuilder
      [] kind = "InsertMultiple" -> NewInsertMultipleBuilder
      [] kind = "UpdateRecord" -> NewUpdateRecordBuilder
      [] kind = "Query" -> NewQueryBuilder
      [] OTHER -> NoBuilder

\* The fields of builder i that are not as the factory left them, and the fragments
\* added to it.
Effort(i) ==
    Cardinality({f \in DOMAIN builders[i] : builders[i][f] # Fresh(builders[i].kind)[f]})
        + Len(hist[i].frags)

FirstBuilderStep(i) ==
    \/ FactoryStep(i)
    \/ /\ Effort(i) < MaxEffort
       /\ \/ UTB_Table(i, <<"t">>)
          \/ UTB_AddColumn(i, <<"c">>, <<"T">>)
          \/ IB_Table(i, <<"t">>)
          \/ IB_Values(i, MapOf(<<"a">> :> <<"1">>))
          \/ IMB_Table(i, <<"t">>)
          \/ IMB_Records(i, <<MapOf(<<"a">> :> <<"1">>)>>)
          \/ URB_Table(i, <<"t">>)
          \/ URB_SetUpdate(i, <<"a">>, IntVal(5))
          \/ URB_Updates(i, MapOf(<<"b">> :> TextVal(<<"x">>)))
          \/ URB_Condition(i, <<"c">>)
          \/ URB_Equal(i, <<"a">>, IntVal(5))
          \/ URB_Greater(i, <<"a">>, IntVal(5))
          \/ URB_Less(i, <<"a">>, IntVal(5))
          \/ QB_Table(i, <<"t">>)
          \/ QB_Columns(i, <<"c">>)
          \/ QB_Condition(i, <<"c">>)
          \/ QB_Equal(i, <<"a">>, IntVal(5))
          \/ QB_Greater(i, <<"a">>, IntVal(5))
          \/ QB_Less(i, <<"a">>, IntVal(5))
          \/ QB_LessEqual(i, <<"a">>, IntVal(5))
          \/ QB_Cursor(i, <<"7">>)
          \/ QB_OrderBy(i, <<"n">>)
          \/ QB_Limit(i, 2)
          \/ QB_Offset(i, 2)
    \/ UTB_Exec(i, OkResponse)
    \/ IB_Exec(i, OkResponse)
    \/ IMB_Exec(i, OkResponse)
    \/ URB_Exec(i, OkResponse)
    \/ QB_Exec(i, OkResponse)

SecondBuilderStep(i) ==
    \/ GoDBClient_Query(i)
    \/ GoDBClient_UpdateRecord(i)
    \/ QB_Table(i, <<"u">>)
    \/ QB_Limit(i, 10)
    \/ QB_Exec(i, OkResponse)
    \/ URB_Table(i, <<"u">>)
    \/ URB_SetUpdate(i, <<"b">>, IntVal(5))
    \/ URB_Exec(i, OkResponse)

NextFrame == FirstBuilderStep(1) \/ SecondBuilderStep(2)

SpecFrame == InitFrame /\ [][NextFrame]_vars

---------------------------------------------------------------------------
(* Properties. *)

HasCondition(i) == builders[i].kind \in {"Query", "UpdateRecord"}

\* The last operation was an Exec of a Query or UpdateRecord builder that sent a request.
SentCondition ==
    /\ last.op \in {"QueryBuilder.Exec", "UpdateRecordBuilder.Exec"}
    /\ last.sent # <<>>

NonEmpty(str) == str # <<>>

\* Each string of strs occurs in s, the occurrences in the order of strs and disjoint.
RECURSIVE ContainsInOrder(_, _)
ContainsInOrder(s, strs) ==
    IF strs = <<>> THEN TRUE
    ELSE LET f == Head(strs) IN
         \E k \in 1..(Len(s) - Len(f) + 1) :
             /\ SubSeq(s, k, k + Len(f) - 1) = f
             /\ ContainsInOrder(SubSeq(s, k + Len(f), Len(s)), Tail(strs))

\* C1: on a builder on which Condition was never called, the accumulated condition
\* is the fragments added so far, in call order, joined by " AND ": empty for none,
\* the fragment itself for one.
C1_FragmentsJoinedInOrder ==
    \A i \in BuilderIds :
        (HasCondition(i) /\ ~hist[i].condCalled)
            => builders[i].condition = Join(hist[i].frags, AndSep)

\* Three fragments, not all the same, were added to a builder without a Condition call.
C1_Witness ==
    \E i \in BuilderIds :
        /\ HasCondition(i) /\ ~hist[i].condCalled
        /\ Len(hist[i].frags) = 3
        /\ hist[i].frags[1] # hist[i].frags[2]
        /\ hist[i].frags[2] # hist[i].frags[3]
        /\ last.op \in {"QueryBuilder.LessEqual", "UpdateRecordBuilder.Less"}

\* C2: the condition a Query Exec sends is the accumulated condition and the cursor
\* predicate, then ORDER BY, then LIMIT, then OFFSET, in whatever order the setters
\* were called.
C2_ClauseOrder ==
    last.op = "QueryBuilder.Exec" =>
        LET qb == builders[last.slot]
            terms == SelectSeq(<<qb.condition,
                                 IF qb.cursor # <<>> THEN IdGreater \o qb.cursor ELSE <<>>>>,
                               NonEmpty)
            order == IF qb.orderBy # <<>> THEN OrderByKw \o qb.orderBy ELSE <<>>
            limit == IF qb.limit > 0 THEN LimitKw \o Itoa(qb.limit) ELSE <<>>
            offset == IF qb.offset > 0 THEN OffsetKw \o Itoa(qb.offset) ELSE <<>>
        IN  /\ Len(last.sent) = 1
            /\ last.sent[1].Condition = Join(terms, AndSep) \o order \o limit \o offset

\* A query with all five clauses was sent, a fragment having been added after the
\* cursor, the order, the limit and the offset were set.
C2_Witness ==
    /\ last.op = "QueryBuilder.Exec"
    /\ hist[last.slot].lastSet \in {"Equal", "Greater"}
    /\ builders[last.slot].cursor # <<>>
    /\ builders[last.slot].orderBy # <<>>
    /\ builders[last.slot].limit > 9
    /\ builders[last.slot].offset > 0
    /\ Len(hist[last.slot].frags) > 1

\* C3 as claimed: every fragment ever added to the builder is present, in call order,
\* in the condition that Exec sends, whatever was called after it.
C3_AppendOnly_Claimed ==
    SentCondition => ContainsInOrder(last.sent[1].Condition, hist[last.slot].frags)

\* C3 amended: the fragments added after the builder's last Condition call (all of
\* them when Condition was never called) are present, in call order, in the condition
\* that Exec sends.
C3_FragmentsSinceConditionKept ==
    SentCondition => ContainsInOrder(last.sent[1].Condition, hist[last.slot].sinceCond)

\* An Exec sent a condition after a fragment, a Condition call and two more fragments.
C3_Witness ==
    /\ SentCondition
    /\ hist[last.slot].condCalled
    /\ Len(hist[last.slot].sinceCond) = 2
    /\ Len(hist[last.slot].frags) = 3

\* C4: after Condition(c) with a non-empty c, the accumulated condition is c followed
\* by the fragments added since, each appended with " AND ", in call order.
C4_RawConditionFirst ==
    \A i \in BuilderIds :
        (HasCondition(i) /\ hist[i].condCalled /\ hist[i].base # <<>>)
            => builders[i].condition = Join(<<hist[i].base>> \o hist[i].sinceCond, AndSep)

\* Condition(c) was called after a fragment, and two different fragments followed.
C4_Witness ==
    \E i \in BuilderIds :
        /\ HasCondition(i) /\ hist[i].condCalled /\ hist[i].base # <<>>
        /\ Len(hist[i].frags) = 3
        /\ Len(hist[i].sinceCond) = 2
        /\ hist[i].sinceCond[1] # hist[i].sinceCond[2]

ValidatingExecs ==
    {"InsertBuilder.Exec", "InsertMultipleBuilder.Exec", "UpdateRecordBuilder.Exec",
     "UpdateTableBuilder.Exec"}

BuilderExecs == ValidatingExecs \cup {"QueryBuilder.Exec"}

\* A field that the builder's Exec requires is missing.
MissingRequired(b) ==
    CASE b.kind = "Insert" ->
            b.tableName = <<>> \/ b.record.nil \/ DOMAIN b.record.kv = {}
      [] b.kind = "InsertMultiple" -> b.tableName = <<>> \/ b.records = <<>>
      [] b.kind = "UpdateRecord" -> b.tableName = <<>> \/ DOMAIN b.updates.kv = {}
      [] b.kind = "UpdateTable" ->
            b.tableName = <<>> \/ b.columnName = <<>> \/ b.columnType = <<>>
      [] OTHER -> FALSE

\* C5: an Exec of an Insert, InsertMultiple, UpdateRecord or UpdateTable builder with
\* a required field missing returns an error and makes no transport call.
C5_NoCallOnValidationFailure ==
    (last.op \in ValidatingExecs /\ MissingRequired(builders[last.slot]))
        => (last.ret.err # NilErr /\ last.sent = <<>> /\ last.replies = <<>>)

\* An Insert Exec failed for its empty table name alone.
C5_Witness ==
    /\ last.op = "InsertBuilder.Exec"
    /\ builders[last.slot].tableName = <<>>
    /\ DOMAIN builders[last.slot].record.kv # {}
    /\ last.ret.err = LocalErr("table name is required")

\* C6: Exec returns a local validation error exactly when a required field is
\* missing; an empty condition of an UpdateRecord builder is no such case and is
\* sent as an empty condition.
C6_ValidationIffMissing ==
    last.op \in ValidatingExecs =>
        /\ (last.ret.err.origin = "local") <=> MissingRequired(builders[last.slot])
        /\ (/\ last.op = "UpdateRecordBuilder.Exec"
            /\ ~MissingRequired(builders[last.slot])
            /\ builders[last.slot].condition = <<>>)
               => (Len(last.sent) = 1 /\ last.sent[1].Condition = <<>>)

\* An UpdateRecord Exec with an empty condition was sent and answered.
C6_Witness ==
    /\ last.op = "UpdateRecordBuilder.Exec"
    /\ builders[last.slot].condition = <<>>
    /\ Len(last.sent) = 1
    /\ last.ret.err = NilErr

\* C7: an Exec that passes validation makes exactly one transport call and returns
\* that call's response message, or that call's failure.
C7_ExactlyOneCall ==
    (last.op \in BuilderExecs /\ ~MissingRequired(builders[last.slot])) =>
        /\ Len(last.sent) = 1
        /\ Len(last.replies) = 1
        /\ IF last.replies[1].err = NilErr
           THEN last.ret.err = NilErr /\ last.ret.msg = last.replies[1].msg
           ELSE last.ret.err = last.replies[1].err

\* An UpdateRecord Exec passed validation and its one call failed.
C7_Witness ==
    /\ last.op = "UpdateRecordBuilder.Exec"
    /\ Len(last.sent) = 1
    /\ last.ret.err = TransportErr("unavailable")

\* C8 as claimed: an Insert Exec with a non-empty table name sends exactly one
\* request, whose record map is the map of the last Values call.
C8_LastValuesSent_Claimed ==
    (last.op = "InsertBuilder.Exec" /\ builders[last.slot].tableName # <<>>)
        => (Len(last.sent) = 1 /\ last.sent[1].Record = hist[last.slot].lastValues)

\* C8 amended: an Insert Exec with a non-empty table name, whose last Values call
\* passed a non-empty map, sends exactly one request, whose record map is that map;
\* with a nil or empty last map, or no Values call, it sends none.
C8_LastNonEmptyValuesSent ==
    (last.op = "InsertBuilder.Exec" /\ builders[last.slot].tableName # <<>>) =>
        IF /\ hist[last.slot].valuesCalled
           /\ ~hist[last.slot].lastValues.nil
           /\ DOMAIN hist[last.slot].lastValues.kv # {}
        THEN Len(last.sent) = 1 /\ last.sent[1].Record = hist[last.slot].lastValues
        ELSE last.sent = <<>>

\* An Insert was sent whose last Values map lacks a key that an earlier one had.
C8_Witness ==
    /\ last.op = "InsertBuilder.Exec"
    /\ Len(last.sent) = 1
    /\ \E m \in hist[last.slot].earlierValues :
           (DOMAIN m.kv) \ (DOMAIN hist[last.slot].lastValues.kv) # {}

\* C9 as claimed: the error an operation returns is the error the transport returned.
C9_ErrorUnchanged_Claimed ==
    (last.replies # <<>> /\ last.replies[1].err # NilErr)
        => last.ret.err = last.replies[1].err

\* C9 amended: the error an operation returns is the error the transport returned,
\* except that CreateUser returns it wrapped behind "failed to create user: ".
C9_ErrorUnchangedButCreateUser ==
    (last.replies # <<>> /\ last.replies[1].err # NilErr) =>
        IF last.op = "CreateUser"
        THEN last.ret.err = WrapErr("failed to create user: ", last.replies[1].err)
        ELSE last.ret.err = last.replies[1].err

\* A CreateUser call failed at the transport.
C9_Witness ==
    /\ last.op = "CreateUser"
    /\ Len(last.replies) = 1
    /\ last.replies[1].err = TransportErr("deadline exceeded")

\* C10: the request an Exec sends carries the connection string the client held
\* when the builder was created.
C10_ConnectionCapturedAtFactory ==
    (last.op \in BuilderExecs /\ last.sent # <<>>)
        => last.sent[1].ConnectionString = hist[last.slot].connAtCreate

\* Naive unescaping: each doubled quote becomes one quote, left to right.
RECURSIVE NaiveUnescape(_)
NaiveUnescape(s) ==
    IF Len(s) < 2 THEN s
    ELSE IF s[1] = "'" /\ s[2] = "'" THEN <<"'">> \o NaiveUnescape(SubSeq(s, 3, Len(s)))
    ELSE <<s[1]>> \o NaiveUnescape(Tail(s))

CountQuotes(s) == Cardinality({k \in 1..Len(s) : s[k] = "'"})

\* The part of a fragment after "field operator ".
ValuePart(frag, field, operator) ==
    SubSeq(frag, Len(field) + Len(operator) + 3, Len(frag))

StartsWith(s, head) == Len(s) >= Len(head) /\ SubSeq(s, 1, Len(head)) = head

\* The calls that added a fragment to builder i, by position.
FragCalls(i) == 1..Len(hist[i].calls)
ArgField(i, k) == hist[i].calls[k][1]
ArgOperator(i, k) == hist[i].calls[k][2]
ArgValue(i, k) == hist[i].calls[k][3]

NameEqOBrien ==
    <<"n", "a", "m", "e", " ", "=", " ", "'", "O", "'", "'", "B", "r", "i", "e", "n", "'">>

\* C11: for a text value, the fragment is "field operator " and the value between
\* single quotes with every quote of the value doubled; stripping the outer quotes
\* and replacing each doubled quote by one gives the value back. Field name,
\* operator = and value O'Brien give name = 'O''Brien'.
C11_QuotesDoubledAndReversible ==
    \A i \in BuilderIds : \A k \in FragCalls(i) :
        ArgValue(i, k).typ = "text" =>
            LET text == ArgValue(i, k).str
                frag == hist[i].frags[k]
                quoted == ValuePart(frag, ArgField(i, k), ArgOperator(i, k))
                inner == SubSeq(quoted, 2, Len(quoted) - 1)
            IN  /\ StartsWith(frag, ArgField(i, k) \o <<" ">> \o ArgOperator(i, k) \o <<" ">>)
                /\ Len(quoted) >= 2
                /\ quoted[1] = "'" /\ quoted[Len(quoted)] = "'"
                /\ Len(inner) = Len(text) + CountQuotes(text)
                /\ CountQuotes(inner) = 2 * CountQuotes(text)
                /\ NaiveUnescape(inner) = text
                /\ (ArgField(i, k) = FieldName /\ ArgOperator(i, k) = <<"=">> /\ text = OBrien)
                       => frag = NameEqOBrien

\* Equal("name", "O'Brien") was called after a text of two adjacent quotes was added.
C11_Witness ==
    \E i \in BuilderIds :
        /\ Len(hist[i].calls) = 2
        /\ ArgValue(i, 1) = TextVal(<<"'", "'">>)
        /\ ArgValue(i, 2) = TextVal(OBrien)
        /\ ArgOperator(i, 2) = <<"=">>
        /\ last.op = "UpdateRecordBuilder.Equal"

EndsWith(s, tail) ==
    Len(s) >= Len(tail) /\ SubSeq(s, Len(s) - Len(tail) + 1, Len(s)) = tail

Contains(s, str) == ContainsInOrder(s, <<str>>)

NameEqGamingLimit10 ==
    <<"n", "a", "m", "e", " ", "=", " ", "'", "G", "a", "m", "i", "n", "g", "'",
      " ", "L", "I", "M", "I", "T", " ", "1", "0">>

\* C12: the condition a Query Exec sends has a LIMIT clause exactly when limit > 0
\* and an OFFSET clause exactly when offset > 0, each with the number set; a limit or
\* offset of 0 or less is not rendered, and Equal("name", "Gaming").Limit(10).Offset(0)
\* sends name = 'Gaming' LIMIT 10. (The texts given to Condition and OrderBy hold no
\* clause keyword.)
C12_LimitOffsetOnlyWhenPositive ==
    last.op = "QueryBuilder.Exec" =>
        LET qb == builders[last.slot]
            h == hist[last.slot]
            final == last.sent[1].Condition
        IN  /\ Contains(final, LimitKw) <=> qb.limit > 0
            /\ Contains(final, OffsetKw) <=> qb.offset > 0
            /\ qb.limit > 0 => Contains(final, LimitKw \o Itoa(qb.limit))
            /\ qb.offset > 0 => EndsWith(final, OffsetKw \o Itoa(qb.offset))
            /\ (/\ h.calls = <<<<FieldName, <<"=">>, TextVal(Gaming)>>>>
                /\ ~h.condCalled
                /\ qb.cursor = <<>> /\ qb.orderBy = <<>>
                /\ qb.limit = 10 /\ qb.offset = 0)
                   => final = NameEqGamingLimit10

\* Equal("name", "Gaming"), Limit(10) and then Offset(0) were called, and Exec sent.
C12_Witness ==
    /\ last.op = "QueryBuilder.Exec"
    /\ hist[last.slot].calls = <<<<FieldName, <<"=">>, TextVal(Gaming)>>>>
    /\ hist[last.slot].lastSet = "Offset"
    /\ ~hist[last.slot].condCalled
    /\ builders[last.slot].cursor = <<>> /\ builders[last.slot].orderBy = <<>>
    /\ builders[last.slot].limit = 10 /\ builders[last.slot].offset = 0

\* C16: with a cursor set, the condition a Query Exec sends starts with the
\* accumulated condition, " AND " and "id > " followed by the cursor as it was given
\* (no quotes added, no quote doubled), or with "id > cursor" alone when nothing was
\* accumulated; without a cursor no id predicate is added after the accumulated
\* condition.
C16_CursorPredicate ==
    last.op = "QueryBuilder.Exec" =>
        LET qb == builders[last.slot]
            final == last.sent[1].Condition
            rest == SubSeq(final, Len(qb.condition) + 1, Len(final))
        IN  IF qb.cursor # <<>>
            THEN StartsWith(final,
                            IF qb.condition # <<>>
                            THEN qb.condition \o AndSep \o IdGreater \o qb.cursor
                            ELSE IdGreater \o qb.cursor)
            ELSE /\ StartsWith(final, qb.condition)
                 /\ ~StartsWith(rest, AndSep)
                 /\ ~Contains(rest, IdGreater)

\* A cursor holding a quote was set after two fragments, and Exec sent.
C16_Witness ==
    /\ last.op = "QueryBuilder.Exec"
    /\ hist[last.slot].lastSet = "Cursor"
    /\ CountQuotes(builders[last.slot].cursor) = 1
    /\ Len(hist[last.slot].sinceCond) = 2
    /\ builders[last.slot].condition # <<>>

\* C20: a Query Exec with offset > 0 and a limit of 0 sends a condition that ends
\* with " OFFSET " and the offset and holds no LIMIT clause; with no condition, no
\* cursor and no order it is that clause alone, leading space included.
C20_OffsetWithoutLimit ==
    (/\ last.op = "QueryBuilder.Exec"
     /\ builders[last.slot].offset > 0
     /\ builders[last.slot].limit = 0) =>
        LET qb == builders[last.slot]
            final == last.sent[1].Condition
        IN  /\ EndsWith(final, OffsetKw \o Itoa(qb.offset))
            /\ ~Contains(final, LimitKw)
            /\ (qb.condition = <<>> /\ qb.cursor = <<>> /\ qb.orderBy = <<>>)
                   => (final = OffsetKw \o Itoa(qb.offset) /\ final[1] = " ")

\* Only Offset(10) was called on a query, and Exec sent " OFFSET 10".
C20_Witness ==
    /\ last.op = "QueryBuilder.Exec"
    /\ builders[last.slot].offset = 10
    /\ builders[last.slot].limit = 0
    /\ hist[last.slot].lastSet = "Offset"
    /\ last.sent[1].Condition = <<" ", "O", "F", "F", "S", "E", "T", " ", "1", "0">>

\* C13: an InsertMultiple Exec with a table name and at least one record supplied
\* makes one call, whose request holds every record passed to the builder's Records
\* calls, in supply order; that call's failure is the failure of the whole Exec.
\* Without a table name or without records nothing is sent.
C13_WholeBatchInOneRequest ==
    last.op = "InsertMultipleBuilder.Exec" =>
        LET supplied == hist[last.slot].supplied
        IN  IF builders[last.slot].tableName # <<>> /\ supplied # <<>>
            THEN /\ Len(last.sent) = 1 /\ Len(last.replies) = 1
                 /\ last.sent[1].Records =
                        [k \in 1..Len(supplied) |-> [Data |-> supplied[k]]]
                 /\ last.replies[1].err # NilErr =>
                        (last.ret.err = last.replies[1].err /\ last.ret.msg = "")
            ELSE last.sent = <<>> /\ last.ret.err.origin = "local"

\* Two Records calls supplied two different records, and the one call of Exec failed.
C13_Witness ==
    /\ last.op = "InsertMultipleBuilder.Exec"
    /\ hist[last.slot].supplied = <<MapOf(<<"a">> :> <<"1">>), MapOf(<<"b">> :> <<"3">>)>>
    /\ Len(last.sent) = 1
    /\ last.ret.err = TransportErr("unavailable")

\* C14: a Query Exec never returns a local validation error and always makes one
\* call, whose request carries the builder's table name and columns as they are,
\* empty ones included; what it returns is what the transport answered.
C14_QueryNoValidation ==
    last.op = "QueryBuilder.Exec" =>
        /\ Len(last.sent) = 1 /\ Len(last.replies) = 1
        /\ last.ret.err.origin # "local"
        /\ last.ret.err = last.replies[1].err
        /\ last.sent[1].TableName = builders[last.slot].tableName
        /\ last.sent[1].Columns = builders[last.slot].columns

\* A query with an empty table name and an empty columns selector was sent and answered.
C14_Witness ==
    /\ last.op = "QueryBuilder.Exec"
    /\ builders[last.slot].tableName = <<>>
    /\ builders[last.slot].columns = <<>>
    /\ Len(last.sent) = 1
    /\ last.sent[1].TableName = <<>>
    /\ last.ret.err = NilErr

\* C19: the update map of an UpdateRecord builder holds exactly the fields named by
\* its SetUpdate and Updates calls, each with the text of the value of the latest call
\* that named it; the request Exec sends carries that map.
C19_UpdatesMerged ==
    /\ \A i \in BuilderIds :
           Is(i, "UpdateRecord") =>
               /\ DOMAIN builders[i].updates.kv = hist[i].named
               /\ \A f \in hist[i].named :
                      builders[i].updates.kv[f] = SprintV(hist[i].latest[f])
    /\ (last.op = "UpdateRecordBuilder.Exec" /\ last.sent # <<>>)
           => last.sent[1].Updates = builders[last.slot].updates

\* Updates named a and b, a later SetUpdate named a alone, and Exec sent both fields.
C19_Witness ==
    /\ last.op = "UpdateRecordBuilder.Exec"
    /\ Len(last.sent) = 1
    /\ hist[last.slot].named = {<<"a">>, <<"b">>}
    /\ hist[last.slot].latest[<<"a">>] = TextVal(<<"x">>)
    /\ last.sent[1].Updates.kv[<<"a">>] = <<"x">>
    /\ last.sent[1].Updates.kv[<<"b">>] = <<"x">>

DigitVal(c) == CHOOSE d \in 0..9 : DigitChars[d + 1] = c

AllDigits(s) == \A k \in 1..Len(s) : \E d \in 0..9 : DigitChars[d + 1] = s[k]

RECURSIVE ParseNat(_)
ParseNat(s) ==
    IF s = <<>> THEN 0
    ELSE 10 * ParseNat(SubSeq(s, 1, Len(s) - 1)) + DigitVal(s[Len(s)])

\* A decimal text read as a number: its sign, its whole part, and its one decimal.
Unsigned(s) == IF s # <<>> /\ s[1] = "-" THEN Tail(s) ELSE s
HasDecimal(s) == Len(s) >= 3 /\ s[Len(s) - 1] = "."
WholePart(s) ==
    IF HasDecimal(Unsigned(s)) THEN SubSeq(Unsigned(s), 1, Len(Unsigned(s)) - 2)
    ELSE Unsigned(s)
ParseTenths(s) ==
    LET mag == 10 * ParseNat(WholePart(s))
               + (IF HasDecimal(Unsigned(s)) THEN DigitVal(s[Len(s)]) ELSE 0)
    IN  IF s[1] = "-" THEN -mag ELSE mag

\* Digits with no leading zero, and a decimal only when it is not zero.
CanonicalNumber(s) ==
    /\ WholePart(s) # <<>>
    /\ AllDigits(WholePart(s))
    /\ Len(WholePart(s)) > 1 => WholePart(s)[1] # "0"
    /\ HasDecimal(Unsigned(s)) => (AllDigits(<<s[Len(s)]>>) /\ s[Len(s)] # "0")

IdEq5AndPriceGt100 ==
    <<"i", "d", " ", "=", " ", "5", " ", "A", "N", "D", " ",
      "p", "r", "i", "c", "e", " ", ">", " ", "1", "0", "0">>

\* C17: for an integer or floating-point value, the fragment is "field operator "
\* and the number in canonical decimal form, with no quote in it; on an UpdateRecord
\* builder Equal("id", 5) and Greater("price", 100) accumulate id = 5 AND price > 100.
C17_NumbersUnquoted ==
    \A i \in BuilderIds :
        /\ \A k \in FragCalls(i) :
               ArgValue(i, k).typ # "text" =>
                   LET frag == hist[i].frags[k]
                       number == ValuePart(frag, ArgField(i, k), ArgOperator(i, k))
                   IN  /\ StartsWith(frag, ArgField(i, k) \o <<" ">>
                                            \o ArgOperator(i, k) \o <<" ">>)
                       /\ CountQuotes(frag) = 0
                       /\ CanonicalNumber(number)
                       /\ ParseTenths(number) =
                              IF ArgValue(i, k).typ = "int"
                              THEN 10 * ArgValue(i, k).num ELSE ArgValue(i, k).num
        /\ (/\ Is(i, "UpdateRecord")
            /\ hist[i].calls = <<<<FieldId, <<"=">>, IntVal(5)>>,
                                  <<FieldPrice, <<">">>, IntVal(100)>>>>)
               => builders[i].condition = IdEq5AndPriceGt100

\* UpdateRecord().Table("t").Equal("id", 5).Greater("price", 100) was called.
C17_Witness ==
    \E i \in BuilderIds :
        /\ Is(i, "UpdateRecord")
        /\ builders[i].tableName = <<"t">>
        /\ hist[i].calls = <<<<FieldId, <<"=">>, IntVal(5)>>,
                              <<FieldPrice, <<">">>, IntVal(100)>>>>
        /\ last.op = "UpdateRecordBuilder.Greater"

\* The requests an Exec called now on the builder in slot i would send.
ExecAgain(i, resp) ==
    IF Is(i, "Query") THEN QueryBuilder_Exec(builders[i], connectionString, resp).sent
    ELSE UpdateRecordBuilder_Exec(builders[i], connectionString, resp).sent

\* The condition that the setter calls made so far have accumulated on builder i.
Accumulated(i) ==
    Join(SelectSeq(<<hist[i].base>>, NonEmpty) \o hist[i].sinceCond, AndSep)

\* C18: after an Exec of a Query or UpdateRecord builder, the builder's condition is
\* still what its setters accumulated, without the cursor predicate or a clause, and
\* an Exec called again with no setter call in between sends what the first one
\* sent, whatever the transport answers; the setters can still be called.
C18_ExecLeavesBuilder ==
    last.op \in {"QueryBuilder.Exec", "UpdateRecordBuilder.Exec"} =>
        /\ builders[last.slot].condition = Accumulated(last.slot)
        /\ \A resp \in Responses : ExecAgain(last.slot, resp) = last.sent
        /\ Is(last.slot, "Query") =>
               (ENABLED QB_Limit(last.slot, 10) /\ ENABLED QB_Cursor(last.slot, <<"8">>))
        /\ Is(last.slot, "UpdateRecord") => ENABLED URB_Table(last.slot, <<"u">>)

\* A query with a condition, a cursor, an order, a limit and an offset was sent, and
\* the call failed.
C18_Witness ==
    /\ last.op = "QueryBuilder.Exec"
    /\ builders[last.slot].condition # <<>>
    /\ builders[last.slot].cursor # <<>>
    /\ builders[last.slot].orderBy # <<>>
    /\ builders[last.slot].limit > 0
    /\ builders[last.slot].offset > 0
    /\ last.ret.err = TransportErr("unavailable")

\* The fields of its builder that a setter names.
SetterFields(op) ==
    CASE op \in {"UpdateTableBuilder.Table", "InsertBuilder.Table",
                 "InsertMultipleBuilder.Table", "UpdateRecordBuilder.Table",
                 "QueryBuilder.Table"} -> {"tableName"}
      [] op = "UpdateTableBuilder.AddColumn" -> {"columnName", "columnType"}
      [] op = "InsertBuilder.Values" -> {"record"}
      [] op = "InsertMultipleBuilder.Records" -> {"records"}
      [] op \in {"UpdateRecordBuilder.SetUpdate", "UpdateRecordBuilder.Updates"} ->
            {"updates"}
      [] op \in {"UpdateRecordBuilder.Condition", "UpdateRecordBuilder.Equal",
                 "UpdateRecordBuilder.Greater", "UpdateRecordBuilder.Less",
                 "QueryBuilder.Condition", "QueryBuilder.Equal", "QueryBuilder.Greater",
                 "QueryBuilder.Less", "QueryBuilder.LessEqual"} -> {"condition"}
      [] op = "QueryBuilder.Columns" -> {"columns"}
      [] op = "QueryBuilder.Cursor" -> {"cursor"}
      [] op = "QueryBuilder.OrderBy" -> {"orderBy"}
      [] op = "QueryBuilder.Limit" -> {"limit"}
      [] op = "QueryBuilder.Offset" -> {"offset"}
      [] OTHER -> {}

IsSetter(op) == SetterFields(op) # {}

\* A step that is a setter call changes, of all builders, only the fields the setter
\* names of the builder it is called on; it returns that builder, sends nothing and
\* leaves the client as it is.
SetterFrame ==
    IsSetter(last'.op) =>
        /\ last'.slot \in BuilderIds
        /\ last'.ret.builder = last'.slot
        /\ last'.sent = <<>> /\ last'.replies = <<>>
        /\ connectionString' = connectionString
        /\ \A j \in BuilderIds \ {last'.slot} : builders'[j] = builders[j]
        /\ DOMAIN builders'[last'.slot] = DOMAIN builders[last'.slot]
        /\ \A f \in DOMAIN builders[last'.slot] \ SetterFields(last'.op) :
               builders'[last'.slot][f] = builders[last'.slot][f]

\* The request an Exec sends is made of the fields of its own builder, and the
\* condition of a builder is what its own setter calls accumulated.
OwnCallsOnly ==
    /\ last'.op \in BuilderExecs =>
           /\ builders' = builders
           /\ \A k \in 1..Len(last'.sent) :
                  /\ last'.sent[k].TableName = builders[last'.slot].tableName
                  /\ last'.op \in {"QueryBuilder.Exec", "UpdateRecordBuilder.Exec"} =>
                         StartsWith(last'.sent[k].Condition, Accumulated(last'.slot))
    /\ \A i \in BuilderIds :
           HasCondition(i)' => builders'[i].condition = Accumulated(i)'

\* C15: a setter call changes only the fields it names of the builder it is called
\* on, returns that builder, makes no transport call and leaves the client and every
\* other builder unchanged; with the setter calls of two builders interleaved, what
\* each builder accumulates and sends comes from its own calls alone.
C15_SettersTouchOnlyTheirBuilder == [][SetterFrame /\ OwnCallsOnly]_vars

\* Limit was called on the first builder, a query whose offset was set before, while
\* the second builder is a query on which Table and Limit were called.
C15_Witness ==
    /\ last.op = "QueryBuilder.Limit" /\ last.slot = 1
    /\ builders[1].offset = 2 /\ builders[1].limit = 2
    /\ Is(2, "Query")
    /\ builders[2].tableName = <<"u">> /\ builders[2].limit = 10

=============================================================================
